---- MODULE Spec2Model ----
(***************************************************************************)
(* Model of the PlantDoc dataset pipeline: the reorganizer                 *)
(* (scripts/reorganize_dataset.py), the label updater                      *)
(* (scripts/update_csv_labels.py) and the COCO exporter                    *)
(* (scripts/convert_to_coco.py).                                           *)
(*                                                                         *)
(* A Python str is a sequence of Unicode code points (ASCII here), so that *)
(* lower(), title(), replace(), strip(), isdigit() and the code-point      *)
(* order used by sorted() are computed as Python computes them.            *)
(***************************************************************************)
EXTENDS Integers, Sequences, FiniteSets, TLC

VARIABLES
    pc,          \* position of the script being run
    box,         \* a source box <<xmin, ymin, xmax, ymax>>, as CSV fields
    converted,   \* result of convert_bbox_format
    train_csv,   \* rows of train_labels.csv
    test_csv,    \* rows of test_labels.csv
    src_dirs,    \* names of the files in TRAIN/ and in TEST/
    images_dir,  \* names of the files in <category>/images
    labelmap,    \* <category>/labelmap.json, a sequence of entries
    csv_files,   \* <category>/csv: stem -> rows of <stem>.csv (header first)
    sets_files,  \* <category>/sets/<name>.txt, each a sequence of lines
    stdout,      \* what the script has printed
    rewritten,   \* stems of the CSVs the last updater run opened for writing
    runs,        \* number of updater runs so far
    label,       \* a label handed to the two label resolvers
    resolved,    \* what each resolver made of it: {} (None) or {label_id}
    splits,      \* the exporter's --splits
    out_files,   \* annotations/: split -> the COCO document written for it
    raised       \* the exception that ended the exporter, or ""

bboxVars == <<box, converted>>
flatVars == <<train_csv, test_csv, src_dirs>>
layoutVars == <<images_dir, labelmap, csv_files, sets_files>>
updVars == <<rewritten, runs>>
resolveVars == <<label, resolved>>
expVars == <<splits, out_files, raised>>

----------------------------------------------------------------------------
(* Bounds of the model *)

\* largest coordinate of a source box drawn by InitBBox
MaxCoord == 4
\* number of image stems "1".."MaxStems" the flat CSVs may name
MaxStems == 10

----------------------------------------------------------------------------
(* Python str operations, on sequences of code points *)

Range(s) == {s[i] : i \in 1..Len(s)}

\* the code points of the characters the scripts name literally
SPACE == <<32>>
USCORE == <<95>>
DOT == <<46>>
SLASH == <<47>>

IsSpaceC(c) == c \in {9, 10, 11, 12, 13, 28, 29, 30, 31, 32}
IsDigitC(c) == c \in 48..57
IsUpperC(c) == c \in 65..90
IsLowerC(c) == c \in 97..122
IsCasedC(c) == IsUpperC(c) \/ IsLowerC(c)
LowerC(c) == IF IsUpperC(c) THEN c + 32 ELSE c
UpperC(c) == IF IsLowerC(c) THEN c - 32 ELSE c

\* s[a..b] as Python's s[a-1:b]
Slice(s, a, b) == [i \in 1..(IF b >= a THEN b - a + 1 ELSE 0) |-> s[a + i - 1]]

\* str.strip()
Strip(s) ==
    LET keep == {i \in 1..Len(s) : ~IsSpaceC(s[i])}
    IN  IF keep = {} THEN <<>>
        ELSE Slice(s, CHOOSE i \in keep : \A j \in keep : i <= j,
                      CHOOSE i \in keep : \A j \in keep : i >= j)

\* str.isdigit()
IsDigit(s) == s # <<>> /\ \A i \in 1..Len(s) : IsDigitC(s[i])

\* str.lower()
Lower(s) == [i \in 1..Len(s) |-> LowerC(s[i])]

\* str.replace(a, b) for one-character a and b
Replace(s, a, b) == [i \in 1..Len(s) |-> IF s[i] = a[1] THEN b[1] ELSE s[i]]

\* str.title(): a cased character is upper-cased when it follows an uncased
\* one (or starts the string) and lower-cased otherwise
Title(s) ==
    [i \in 1..Len(s) |->
        IF i > 1 /\ IsCasedC(s[i - 1]) THEN LowerC(s[i]) ELSE UpperC(s[i])]

\* str.capitalize()
Capitalize(s) == [i \in 1..Len(s) |-> IF i = 1 THEN UpperC(s[i]) ELSE LowerC(s[i])]

\* str.endswith(t)
EndsWith(s, t) == Len(s) >= Len(t) /\ Slice(s, Len(s) - Len(t) + 1, Len(s)) = t

\* a < b for two str: the code-point lexicographic order
StrLess(a, b) ==
    \E i \in 1..Len(b) :
        /\ Len(a) >= i - 1
        /\ \A j \in 1..(i - 1) : a[j] = b[j]
        /\ (Len(a) = i - 1 \/ a[i] < b[i])

\* sorted(S) for a set of str
RECURSIVE Sorted(_)
Sorted(S) ==
    IF S = {} THEN <<>>
    ELSE LET m == CHOOSE x \in S : \A y \in S : x = y \/ StrLess(x, y)
         IN  <<m>> \o Sorted(S \ {m})

\* str(n) for an int n >= 0
RECURSIVE ToStr(_)
ToStr(n) == IF n < 10 THEN <<48 + n>> ELSE ToStr(n \div 10) \o <<48 + (n % 10)>>

\* int(s) of a str of decimal digits
RECURSIVE ParseInt(_)
ParseInt(s) ==
    IF Len(s) = 0 THEN 0
    ELSE 10 * ParseInt(Slice(s, 1, Len(s) - 1)) + (s[Len(s)] - 48)

\* float(s).  The model's fields are decimal literals: an optional sign,
\* digits, and an optional all-zero fraction (no exponent, nan or inf), so
\* that every value is an integer, on which binary64 arithmetic is exact.
FloatBody(s) ==
    LET t == Strip(s)
    IN  IF t # <<>> /\ t[1] \in {43, 45} THEN Slice(t, 2, Len(t)) ELSE t

\* whether float(s) returns (otherwise it raises ValueError)
IsFloat(s) ==
    LET b == FloatBody(s)
    IN  /\ \A i \in 1..Len(b) : IsDigitC(b[i]) \/ b[i] = 46
        /\ Cardinality({i \in 1..Len(b) : b[i] = 46}) <= 1
        /\ \E i \in 1..Len(b) : IsDigitC(b[i])

FloatValue(s) ==
    LET t == Strip(s)
        b == FloatBody(s)
        dots == {i \in 1..Len(b) : b[i] = 46}
        int == IF dots = {} THEN b ELSE Slice(b, 1, (CHOOSE i \in dots : TRUE) - 1)
    IN  IF t[1] = 45 THEN 0 - ParseInt(int) ELSE ParseInt(int)

\* str(v) of a float v with an integer value, as csv.writer writes it
FloatStr(v) == IF v < 0 THEN <<45>> \o ToStr(0 - v) \o <<46, 48>> ELSE ToStr(v) \o <<46, 48>>

\* the elements of a set of integers in ascending order
RECURSIVE Ascending(_)
Ascending(S) ==
    IF S = {} THEN <<>>
    ELSE LET m == CHOOSE i \in S : \A j \in S : i <= j
         IN  <<m>> \o Ascending(S \ {m})

\* Path(filename).stem: the final component without its last suffix
PathStem(filename) ==
    LET slashes == {i \in 1..Len(filename) : filename[i] = SLASH[1]}
        from == IF slashes = {} THEN 1
                ELSE 1 + CHOOSE i \in slashes : \A j \in slashes : i >= j
        name == Slice(filename, from, Len(filename))
        dots == {i \in 1..Len(name) : name[i] = DOT[1]}
        last == IF dots = {} THEN 0 ELSE CHOOSE i \in dots : \A j \in dots : i >= j
    IN  IF 1 < last /\ last < Len(name) THEN Slice(name, 1, last - 1) ELSE name

\* the extensions the scripts try, in their order
JPG == <<46, 106, 112, 103>>
JPEG == <<46, 106, 112, 101, 103>>
PNG == <<46, 112, 110, 103>>
Extensions == <<JPG, JPEG, PNG>>

\* the first of <stem>.jpg, <stem>.jpeg, <stem>.png that exists, or <<>>
FindImage(dir, stem) ==
    LET hits == {i \in 1..Len(Extensions) : (stem \o Extensions[i]) \in dir}
    IN  IF hits = {} THEN <<>>
        ELSE stem \o Extensions[CHOOSE i \in hits : \A j \in hits : i <= j]

\* a Python dict: the <<key, value>> pairs in insertion order.  (The loops
\* that fill a dict read Len(d) at each step, so that each step works on a
\* computed value and not on the unevaluated chain of the steps before it.)
DictHas(d, k) == \E i \in 1..Len(d) : d[i][1] = k
DictGet(d, k) == d[CHOOSE i \in 1..Len(d) : d[i][1] = k][2]
\* d[k] = v: a key already there keeps its place
DictSet(d, k, v) ==
    IF DictHas(d, k)
    THEN [i \in 1..Len(d) |-> IF d[i][1] = k THEN <<k, v>> ELSE d[i]]
    ELSE Append(d, <<k, v>>)

RECURSIVE DictSetAll(_, _, _)
DictSetAll(d, keys, v) ==
    IF Len(d) >= 0 /\ keys = <<>> THEN d
    ELSE DictSetAll(DictSet(d, Head(keys), v), Tail(keys), v)

\* a directory of files, name -> content
PutFile(files, name, content) ==
    [n \in (DOMAIN files) \cup {name} |-> IF n = name THEN content ELSE files[n]]

----------------------------------------------------------------------------
(* String literals of the scripts and of the inputs *)

\* "background"
s_background == <<98, 97, 99, 107, 103, 114, 111, 117, 110, 100>>
\* "_leaf"
s_leaf_suffix == <<95, 108, 101, 97, 102>>
\* " leaf"
s_sp_leaf == <<32, 108, 101, 97, 102>>
\* "#item", "x", "y", "width", "height", "label"
h_item == <<35, 105, 116, 101, 109>>
h_x == <<120>>
h_y == <<121>>
h_width == <<119, 105, 100, 116, 104>>
h_height == <<104, 101, 105, 103, 104, 116>>
h_label == <<108, 97, 98, 101, 108>>
\* "bell_pepper_leaf"
s_bell_pepper_leaf == <<98, 101, 108, 108, 95, 112, 101, 112, 112, 101, 114, 95, 108, 101, 97, 102>>
\* "Bell_Pepper_Leaf"
s_Bell_Pepper_Leaf == <<66, 101, 108, 108, 95, 80, 101, 112, 112, 101, 114, 95, 76, 101, 97, 102>>
\* "Bell Pepper Leaf"
s_Bell_Pepper_Leaf_sp == <<66, 101, 108, 108, 32, 80, 101, 112, 112, 101, 114, 32, 76, 101, 97, 102>>
\* "Bell_pepper leaf", the spelling of the PlantDoc CSVs
s_Bell_pepper_leaf_ds == <<66, 101, 108, 108, 95, 112, 101, 112, 112, 101, 114, 32, 108, 101, 97, 102>>
\* "Apple leaf"
s_Apple_leaf == <<65, 112, 112, 108, 101, 32, 108, 101, 97, 102>>
\* "apple Leaf"
s_apple_Leaf == <<97, 112, 112, 108, 101, 32, 76, 101, 97, 102>>
\* " Tomato "
s_Tomato_pad == <<32, 84, 111, 109, 97, 116, 111, 32>>
\* "Tomato"
s_Tomato == <<84, 111, 109, 97, 116, 111>>
\* "rust"
s_rust == <<114, 117, 115, 116>>
\* "RUST"
s_RUST == <<82, 85, 83, 84>>
\* "unknown"
s_unknown == <<117, 110, 107, 110, 111, 119, 110>>
\* "abc"
s_abc == <<97, 98, 99>>
\* "3 leaf"
s_3_leaf == <<51, 32, 108, 101, 97, 102>>

----------------------------------------------------------------------------
(* reorganize_dataset.py *)

\* a row of a flat CSV, as csv.DictReader gives it
FlatRow(filename, class, xmin, ymin, xmax, ymax) ==
    [filename |-> filename, class |-> class,
     xmin |-> xmin, ymin |-> ymin, xmax |-> xmax, ymax |-> ymax]

\* the set of classes the read loop collects from one CSV
ClassesOf(csv_file) ==
    {Strip(csv_file[i].class) : i \in
        {i \in 1..Len(csv_file) :
            Strip(csv_file[i].class) # <<>> /\ ~IsDigit(Strip(csv_file[i].class))}}

get_all_classes_KeepNumeric(csv_list) ==
    Sorted(UNION {{Strip(csv_list[k][i].class) : i \in
                     {i \in 1..Len(csv_list[k]) : Strip(csv_list[k][i].class) # <<>>}}
                  : k \in 1..Len(csv_list)})

get_all_classes(csv_list) ==
    Sorted(UNION {ClassesOf(csv_list[k]) : k \in 1..Len(csv_list)})

convert_bbox_format_NoSubtract(xmin, ymin, xmax, ymax) ==
    [x |-> FloatValue(xmin), y |-> FloatValue(ymin),
     width |-> FloatValue(xmax), height |-> FloatValue(ymax)]

convert_bbox_format(xmin, ymin, xmax, ymax) ==
    [x |-> FloatValue(xmin), y |-> FloatValue(ymin),
     width |-> FloatValue(xmax) - FloatValue(xmin),
     height |-> FloatValue(ymax) - FloatValue(ymin)]

PerImageHeader == <<h_item, h_x, h_y, h_width, h_height, h_label>>

\* the indices of the rows the read loop keeps
ValidRows(csv_file) ==
    {i \in 1..Len(csv_file) :
        /\ Strip(csv_file[i].filename) # <<>>
        /\ Strip(csv_file[i].class) # <<>>
        /\ ~IsDigit(Strip(csv_file[i].class))}

\* the keys of annotations_by_image, in insertion order
GroupKeys(csv_file) ==
    LET V == ValidRows(csv_file)
        first == {i \in V : \A j \in V :
                     j < i => Strip(csv_file[j].filename) # Strip(csv_file[i].filename)}
        order == Ascending(first)
    IN  [k \in 1..Len(order) |-> Strip(csv_file[order[k]].filename)]

\* the rows written for one key: idx, x, y, width, height, label
GroupRows(csv_file, filename) ==
    LET order == Ascending({i \in ValidRows(csv_file) :
                               Strip(csv_file[i].filename) = filename})
    IN  [k \in 1..Len(order) |->
            LET row == csv_file[order[k]]
                b == convert_bbox_format(row.xmin, row.ymin, row.xmax, row.ymax)
            IN  <<ToStr(k - 1), FloatStr(b.x), FloatStr(b.y), FloatStr(b.width),
                  FloatStr(b.height), Strip(row.class)>>]

\* the write loop over annotations_by_image, from key number k on
RECURSIVE WritePerImage(_, _, _, _, _, _)
WritePerImage(keys, k, csv_file, dir, files, out) ==
    IF k > Len(keys) THEN [files |-> files, out |-> out]
    ELSE LET filename == keys[k]
             stem == PathStem(filename)
         IN  IF FindImage(dir, stem) = <<>> /\ filename \notin dir
             THEN WritePerImage(keys, k + 1, csv_file, dir, files,
                                Append(out, "Warning: Image not found"))
             ELSE WritePerImage(keys, k + 1, csv_file, dir,
                                PutFile(files, stem,
                                        <<PerImageHeader>> \o GroupRows(csv_file, filename)),
                                out)

create_per_image_csvs(csv_file, dir, files, out) ==
    WritePerImage(GroupKeys(csv_file), 1, csv_file, dir, files, out)

LabelEntry(id, name) ==
    [object_id |-> id, label_id |-> id, keyboard_shortcut |-> ToStr(id),
     object_name |-> name]

create_labelmap_FromZero(classes) ==
    LET sorted == Sorted(Range(classes))
    IN  <<LabelEntry(0, s_background)>> \o
        [i \in 1..Len(sorted) |->
            LabelEntry(i - 1, Replace(Lower(sorted[i]), SPACE, USCORE))]

create_labelmap(classes) ==
    LET sorted == Sorted(Range(classes))
    IN  <<LabelEntry(0, s_background)>> \o
        [i \in 1..Len(sorted) |->
            LabelEntry(i, Replace(Lower(sorted[i]), SPACE, USCORE))]

\* the destination directory after copy_images: files already there stay
copy_images(source_dir, dest_dir) ==
    dest_dir \cup {n \in source_dir : \E i \in 1..Len(Extensions) : EndsWith(n, Extensions[i])}

\* the nested get_image_stems
get_image_stems(csv_file, dir) ==
    {PathStem(Strip(csv_file[i].filename)) : i \in
        {i \in 1..Len(csv_file) :
            /\ Strip(csv_file[i].filename) # <<>>
            /\ FindImage(dir, PathStem(Strip(csv_file[i].filename))) # <<>>}}

SplitTrainVal_OffByOne(train_stems) ==
    LET train_list == Sorted(train_stems)
        val_size == Len(train_list) \div 5
    IN  [val |-> Range(Slice(train_list, 1, val_size)),
         train |-> Range(Slice(train_list, val_size + 2, Len(train_list)))]

\* the 80/20 split: the first len // 5 of the sorted train stems are val
SplitTrainVal(train_stems) ==
    LET train_list == Sorted(train_stems)
        val_size == Len(train_list) \div 5
    IN  [val |-> Range(Slice(train_list, 1, val_size)),
         train |-> Range(Slice(train_list, val_size + 1, Len(train_list)))]

\* the files create_sets_files leaves in sets/ (train.txt is written twice;
\* the second write, without the val stems, is the one that stays)
create_sets_files(train, test, dir) ==
    LET train_stems == get_image_stems(train, dir)
        test_stems == get_image_stems(test, dir)
        split == SplitTrainVal(train_stems)
    IN  [train |-> Sorted(split.train),
         val |-> Sorted(split.val),
         test |-> Sorted(test_stems),
         all |-> Sorted(train_stems \cup test_stems),
         train_val |-> Sorted(split.train \cup split.val)]

NoSets == [train |-> <<>>, val |-> <<>>, test |-> <<>>, all |-> <<>>, train_val |-> <<>>]

----------------------------------------------------------------------------
(* update_csv_labels.py *)

\* the spellings generated for one object_name, in the order of the list
Variations(obj_name) ==
    <<obj_name,
      Replace(obj_name, USCORE, SPACE),
      Title(Replace(obj_name, USCORE, SPACE)),
      Title(obj_name),
      Capitalize(Replace(obj_name, USCORE, SPACE))>>
    \o (IF EndsWith(obj_name, s_leaf_suffix)
        THEN LET base == Slice(obj_name, 1, Len(obj_name) - 5)
             IN  <<Replace(base, USCORE, SPACE) \o s_sp_leaf,
                   Title(Replace(base, USCORE, SPACE)) \o s_sp_leaf,
                   Title(base) \o s_sp_leaf>>
        ELSE <<>>)

\* the loop over the labelmap that fills class_to_id, from item i on
RECURSIVE MapVariations(_, _, _)
MapVariations(lm, i, d) ==
    IF Len(d) >= 0 /\ i > Len(lm) THEN d
    ELSE MapVariations(lm, i + 1,
            IF lm[i].object_id > 0
            THEN DictSetAll(d, Variations(lm[i].object_name), lm[i].label_id)
            ELSE d)

\* the first value whose key equals name case-insensitively: {} or {value}
FirstIgnoringCase(d, name) ==
    LET hits == {i \in 1..Len(d) : Lower(d[i][1]) = Lower(name)}
    IN  IF hits = {} THEN {}
        ELSE {d[CHOOSE i \in hits : \A j \in hits : i <= j][2]}

\* the loop over original_classes, from class number k on.  A set is walked
\* in an order Python does not fix; the classes are walked in sorted order
\* here: a class whose normalized name is in the labelmap is mapped without
\* reading class_to_id, and classes that agree case-insensitively are mapped
\* to the same value, so the order changes no lookup.
RECURSIVE MapOriginals(_, _, _, _)
MapOriginals(lm, origs, k, d) ==
    IF Len(d) >= 0 /\ k > Len(origs) THEN d
    ELSE LET orig_class == origs[k]
             normalized == Replace(Lower(orig_class), SPACE, USCORE)
             items == {i \in 1..Len(lm) :
                          lm[i].object_id > 0 /\ lm[i].object_name = normalized}
             d1 == IF items = {} THEN d
                   ELSE DictSet(d, orig_class,
                                lm[CHOOSE i \in items : \A j \in items : i <= j].label_id)
             ci == FirstIgnoringCase(d1, orig_class)
             d2 == IF ~DictHas(d1, orig_class) /\ ci # {}
                   THEN DictSet(d1, orig_class, CHOOSE v \in ci : TRUE)
                   ELSE d1
         IN  MapOriginals(lm, origs, k + 1, d2)

\* class_to_id as update_csv_labels builds it
build_class_to_id(lm, train, test) ==
    MapOriginals(lm, Sorted(ClassesOf(train) \cup ClassesOf(test)), 1,
                 MapVariations(lm, 1, <<>>))

\* label_id for the label field of one row: {} (None) or {label_id}
find_label_id_NumericIsId(class_to_id, field) ==
    LET class_name == Strip(field)
    IN  IF IsDigit(class_name) THEN {ParseInt(class_name)}
        ELSE IF DictHas(class_to_id, class_name) THEN {DictGet(class_to_id, class_name)}
        ELSE FirstIgnoringCase(class_to_id, class_name)

find_label_id(class_to_id, field) ==
    LET class_name == Strip(field)
    IN  IF DictHas(class_to_id, class_name) THEN {DictGet(class_to_id, class_name)}
        ELSE FirstIgnoringCase(class_to_id, class_name)

\* whether the row loop sets updated for this row
RowResolves(class_to_id, row) == Len(row) >= 6 /\ find_label_id(class_to_id, row[6]) # {}

update_rows_DropUnresolved(class_to_id, rows) ==
    <<rows[1]>> \o
    SelectSeq([i \in 1..(Len(rows) - 1) |->
                  LET row == rows[i + 1]
                  IN  IF RowResolves(class_to_id, row)
                      THEN [row EXCEPT ![6] =
                               ToStr(CHOOSE v \in find_label_id(class_to_id, row[6]) : TRUE)]
                      ELSE <<>>],
              LAMBDA r : r # <<>>)

\* rows as the read loop of one file collects them: the header, then every
\* row, with column 6 replaced where a label_id was found
update_rows(class_to_id, rows) ==
    [i \in 1..Len(rows) |->
        IF i > 1 /\ RowResolves(class_to_id, rows[i])
        THEN [rows[i] EXCEPT ![6] =
                 ToStr(CHOOSE v \in find_label_id(class_to_id, rows[i][6]) : TRUE)]
        ELSE rows[i]]

\* the warnings one file prints, one per row of six or more columns whose
\* label is not found
FileWarnings(class_to_id, rows) ==
    [k \in 1..Cardinality({i \in 2..Len(rows) :
                             Len(rows[i]) >= 6 /\ ~RowResolves(class_to_id, rows[i])})
        |-> "Warning: Could not find label ID"]

RECURSIVE AllWarnings(_, _, _, _)
AllWarnings(class_to_id, files, stems, k) ==
    IF k > Len(stems) THEN <<>>
    ELSE FileWarnings(class_to_id, files[stems[k]])
         \o AllWarnings(class_to_id, files, stems, k + 1)

\* update_csv_labels over the files of csv/ (each holds its header row; the
\* files are independent of each other, and are walked in sorted order)
update_csv_labels(files, lm, train, test) ==
    LET class_to_id == build_class_to_id(lm, train, test)
        updated == {s \in DOMAIN files :
                       \E i \in 2..Len(files[s]) : RowResolves(class_to_id, files[s][i])}
    IN  [files |-> [s \in DOMAIN files |->
                       IF s \in updated THEN update_rows(class_to_id, files[s])
                       ELSE files[s]],
         rewritten |-> updated,
         out |-> AllWarnings(class_to_id, files, Sorted(DOMAIN files), 1)
                 \o <<"Updated CSV files">>]

----------------------------------------------------------------------------
(* convert_to_coco.py: label resolution *)

\* the loop of load_labelmap, from item i on
RECURSIVE LoadItems(_, _, _, _)
LoadItems(lm, i, d, first_id) ==
    IF Len(d) >= 0 /\ i > Len(lm) THEN d
    ELSE LoadItems(lm, i + 1,
            IF lm[i].object_id > first_id
            THEN DictSetAll(d, <<lm[i].object_name,
                                 Replace(lm[i].object_name, USCORE, SPACE),
                                 Title(Replace(lm[i].object_name, USCORE, SPACE)),
                                 Title(lm[i].object_name)>>, lm[i].label_id)
            ELSE d,
            first_id)

load_labelmap_SkipFirst(lm) == LoadItems(lm, 1, <<>>, 1)

load_labelmap(lm) == LoadItems(lm, 1, <<>>, 0)

\* category_id for a label field: {} (None) or {category_id}
category_id_of(class_to_id, field) ==
    LET lab == Strip(field)
        normalized == Replace(Lower(lab), SPACE, USCORE)
    IN  IF IsDigit(lab) THEN {ParseInt(lab)}
        ELSE IF DictHas(class_to_id, normalized) THEN {DictGet(class_to_id, normalized)}
        ELSE FirstIgnoringCase(class_to_id, lab)

----------------------------------------------------------------------------
(* convert_to_coco.py: the export *)

\* "plant_diseases/images/", the directory part of file_name
s_images_prefix == <<112, 108, 97, 110, 116, 95, 100, 105, 115, 101, 97, 115, 101, 115,
                     47, 105, 109, 97, 103, 101, 115, 47>>

\* the non-empty stripped lines of a split file (an absent file reads as [])
read_split_list(lines) ==
    SelectSeq([i \in 1..Len(lines) |-> Strip(lines[i])], LAMBDA l : l # <<>>)

\* (width, height) of an image file, read by PIL
image_size(name) == <<100 * Len(name), 200>>

\* row.get(key, default) on the dict csv.DictReader makes of a row: a header
\* column the row is too short for holds None
RowGet(header, row, key) ==
    LET cols == {i \in 1..Len(header) : header[i] = key}
        col == CHOOSE i \in cols : \A j \in cols : i >= j
    IN  IF cols = {} THEN [kind |-> "default", s |-> <<>>]
        ELSE IF col > Len(row) THEN [kind |-> "None", s |-> <<>>]
        ELSE [kind |-> "str", s |-> row[col]]

CoordKeys == <<h_x, h_y, h_width, h_height>>

\* float(row.get(key, 0))
CoordValue(v) == IF v.kind = "default" THEN 0 ELSE FloatValue(v.s)

NoBox == [x |-> 0, y |-> 0, width |-> 0, height |-> 0, category_id |-> 0, area |-> 0]

\* the try block on the values row.get gave: the four float() calls in
\* their order (None raises TypeError, a str that is no number ValueError),
\* then the label (None has no strip: AttributeError), then the category
ParseFields(class_to_id, c, lab) ==
    IF \E k \in 1..4 : c[k].kind = "None" \/ (c[k].kind = "str" /\ ~IsFloat(c[k].s))
    THEN IF c[CHOOSE k \in 1..4 :
                /\ c[k].kind = "None" \/ (c[k].kind = "str" /\ ~IsFloat(c[k].s))
                /\ \A j \in 1..(k - 1) : c[j].kind = "default" \/ IsFloat(c[j].s)].kind = "None"
         THEN [kind |-> "raise", exc |-> "TypeError", box |-> NoBox]
         ELSE [kind |-> "skip", exc |-> "ValueError", box |-> NoBox]
    ELSE IF lab.kind = "None"
    THEN [kind |-> "raise", exc |-> "AttributeError", box |-> NoBox]
    ELSE IF category_id_of(class_to_id, lab.s) = {}
    THEN [kind |-> "skip", exc |-> "", box |-> NoBox]
    ELSE [kind |-> "box", exc |-> "",
          box |-> [x |-> CoordValue(c[1]), y |-> CoordValue(c[2]),
                   width |-> CoordValue(c[3]), height |-> CoordValue(c[4]),
                   category_id |-> CHOOSE v \in category_id_of(class_to_id, lab.s) : TRUE,
                   area |-> CoordValue(c[3]) * CoordValue(c[4])]]

\* the body of the row loop of parse_csv_boxes: an annotation, a skipped row
\* (continue), or an exception that the except clause does not catch
parse_row(class_to_id, header, row) ==
    ParseFields(class_to_id, [k \in 1..4 |-> RowGet(header, row, CoordKeys[k])],
                RowGet(header, row, h_label))

\* the row loop, from row i on (csv.DictReader passes over empty rows)
RECURSIVE ParseRows(_, _, _, _)
\* what the loop does with the outcome r of row i
RowStep(class_to_id, rows, i, boxes, r) ==
    IF r.kind = "raise" THEN [exc |-> r.exc, boxes |-> boxes]
    ELSE ParseRows(class_to_id, rows, i + 1,
                   IF r.kind = "skip" THEN boxes ELSE Append(boxes, r.box))

ParseRows(class_to_id, rows, i, boxes) ==
    IF i > Len(rows) THEN [exc |-> "", boxes |-> boxes]
    ELSE IF rows[i] = <<>> THEN ParseRows(class_to_id, rows, i + 1, boxes)
    ELSE RowStep(class_to_id, rows, i, boxes, parse_row(class_to_id, rows[1], rows[i]))

\* parse_csv_boxes: the annotations of <stem>.csv, or the exception raised
parse_csv_boxes(files, stem, class_to_id) ==
    IF stem \notin DOMAIN files \/ files[stem] = <<>> THEN [exc |-> "", boxes |-> <<>>]
    ELSE ParseRows(class_to_id, files[stem], 2, <<>>)

\* the image id counter after a stem without an image file (continue)
IdAfterSkip_Consumes(image_id_counter) == image_id_counter + 1

IdAfterSkip(image_id_counter) == image_id_counter

\* the annotation id counter when the loop moves to the next image
AnnIdForNextImage_Reset(ann_id_counter) == 1

AnnIdForNextImage(ann_id_counter) == ann_id_counter

\* the image entry appended for the file img
ImageEntry(image_id_counter, img) ==
    [id |-> image_id_counter, file_name |-> s_images_prefix \o img,
     width |-> image_size(img)[1], height |-> image_size(img)[2]]

\* the annotations appended for the boxes of one image
BoxAnnotations(boxes, image_id_counter, ann_id_counter) ==
    [n \in 1..Len(boxes) |->
        [id |-> ann_id_counter + n - 1,
         image_id |-> image_id_counter,
         category_id |-> boxes[n].category_id,
         bbox |-> <<boxes[n].x, boxes[n].y, boxes[n].width, boxes[n].height>>,
         area |-> boxes[n].area,
         iscrowd |-> 0]]

\* the loop over sorted(image_stems), from stem k on
RECURSIVE CollectLoop(_, _, _, _, _, _, _, _, _)
\* the body of the loop for stem k, whose image file is img (<<>>: none) and
\* whose CSV parses to parsed
CollectStep(stems, k, dir, files, class_to_id, ids, images, annotations, img, parsed) ==
    IF img = <<>>
    THEN CollectLoop(stems, k + 1, dir, files, class_to_id,
                     IdAfterSkip(ids[1]), ids[2], images, annotations)
    ELSE IF parsed.exc # ""
    THEN [exc |-> parsed.exc, images |-> images, annotations |-> annotations]
    ELSE CollectLoop(stems, k + 1, dir, files, class_to_id,
                     ids[1] + 1, AnnIdForNextImage(ids[2] + Len(parsed.boxes)),
                     Append(images, ImageEntry(ids[1], img)),
                     annotations \o BoxAnnotations(parsed.boxes, ids[1], ids[2]))

CollectLoop(stems, k, dir, files, class_to_id, image_id_counter, ann_id_counter, images, annotations) ==
    IF k > Len(stems) THEN [exc |-> "", images |-> images, annotations |-> annotations]
    ELSE CollectStep(stems, k, dir, files, class_to_id,
                     <<image_id_counter, ann_id_counter>>, images, annotations,
                     FindImage(dir, stems[k]),
                     IF FindImage(dir, stems[k]) = <<>> THEN [exc |-> "", boxes |-> <<>>]
                     ELSE parse_csv_boxes(files, stems[k], class_to_id))

\* the categories list: the labelmap without its background entry
Categories(lm) ==
    LET keep == Ascending({i \in 1..Len(lm) : lm[i].object_id > 0})
    IN  [k \in 1..Len(keep) |->
            [id |-> lm[keep[k]].label_id, name |-> lm[keep[k]].object_name,
             supercategory |-> "plant_disease"]]

\* the stems of the split: those of sets/<split>.txt or, when there are
\* none, those of every image of images/
SplitStems(lines, dir) ==
    IF Range(read_split_list(lines)) # {} THEN Range(read_split_list(lines))
    ELSE {PathStem(n) : n \in {n \in dir : \E i \in 1..Len(Extensions) :
                                               EndsWith(n, Extensions[i])}}

\* the three lists of a split, or the exception raised while collecting
SplitResult(r, categories) ==
    [exc |-> r.exc, images |-> r.images, annotations |-> r.annotations,
     categories |-> categories]

collect_annotations_for_split(lm, lines, dir, files) ==
    SplitResult(CollectLoop(Sorted(SplitStems(lines, dir)), 1, dir, files,
                            load_labelmap(lm), 1, 1, <<>>, <<>>),
                Categories(lm))

\* the loop of convert over the splits, from split k on: each document is
\* written when its split is collected; an exception ends the run
RECURSIVE ConvertLoop(_, _, _, _, _, _, _, _)
\* the body of the loop for split k, collected as r
ConvertStep(split_args, k, lm, sets, dir, files, written, out, r) ==
    IF r.exc # "" THEN [exc |-> r.exc, files |-> written, out |-> out]
    ELSE ConvertLoop(split_args, k + 1, lm, sets, dir, files,
                     PutFile(written, split_args[k],
                             [images |-> r.images, annotations |-> r.annotations,
                              categories |-> r.categories]),
                     Append(out, "Generated"))

ConvertLoop(split_args, k, lm, sets, dir, files, written, out) ==
    IF k > Len(split_args) THEN [exc |-> "", files |-> written, out |-> out]
    ELSE ConvertStep(split_args, k, lm, sets, dir, files, written, out,
                     collect_annotations_for_split(lm, sets[split_args[k]], dir, files))

convert(split_args, lm, sets, dir, files) ==
    ConvertLoop(split_args, 1, lm, sets, dir, files, <<>>, <<>>)

----------------------------------------------------------------------------
(* Inputs *)

StemName(i) == ToStr(i)
\* image i is stored as .jpg, .jpeg or .png in turn
ImageName(i) == StemName(i) \o Extensions[(i % 3) + 1]
\* the flat CSVs name every image as <stem>.jpg
CsvName(i) == StemName(i) \o JPG

RowFor(i) == FlatRow(CsvName(i), s_rust, ToStr(1), ToStr(2), ToStr(3), ToStr(4))

\* the rows for the stems of I, in ascending order of i
RowsFor(I) == [k \in 1..Cardinality(I) |-> RowFor(Ascending(I)[k])]

Coords == {ToStr(n) : n \in 0..MaxCoord}

\* rows with one class each, all for image 1
ClassRows(classes) ==
    [k \in 1..Len(classes) |->
        FlatRow(CsvName(1), classes[k], ToStr(1), ToStr(2), ToStr(3), ToStr(4))]

\* the class columns of <<train_labels.csv, test_labels.csv>>
ClassScenarios ==
    { <<<<s_bell_pepper_leaf>>, <<>>>>,
      <<<<s_Bell_pepper_leaf_ds, s_Bell_pepper_leaf_ds>>, <<s_Bell_pepper_leaf_ds>>>>,
      <<<<s_Tomato, s_Apple_leaf>>, <<s_apple_Leaf>>>>,
      <<<<s_Tomato_pad, ToStr(3), s_rust>>, <<s_RUST, <<>>>>>>,
      <<<<s_rust, s_3_leaf>>, <<s_Bell_pepper_leaf_ds, ToStr(1)>>>>,
      <<<<ToStr(3)>>, <<>>>> }

\* labels handed to the resolvers
LabelPool ==
    { s_bell_pepper_leaf, s_Bell_Pepper_Leaf, s_Bell_Pepper_Leaf_sp,
      s_Bell_pepper_leaf_ds, Lower(s_Bell_pepper_leaf_ds), s_Apple_leaf, s_apple_Leaf,
      Lower(s_Apple_leaf), s_Tomato, s_Tomato_pad, s_rust, s_RUST, s_unknown,
      s_3_leaf, ToStr(1), ToStr(2), ToStr(3), <<>> }

\* rows of a per-image CSV
FullRow(lab) == <<ToStr(0), FloatStr(5), FloatStr(5), FloatStr(10), FloatStr(10), lab>>
UpdaterRowPool ==
    {FullRow(l) : l \in {s_Bell_Pepper_Leaf_sp, s_apple_Leaf, s_Tomato_pad,
                         s_unknown, ToStr(1), ToStr(3)}}
    \cup { <<ToStr(0), FloatStr(5), FloatStr(5), FloatStr(10), FloatStr(10)>>,
           <<>>,
           FullRow(s_rust) \o <<s_abc>> }

RECURSIVE SeqsUpTo(_, _)
SeqsUpTo(S, n) ==
    IF n = 0 THEN {<<>>}
    ELSE LET shorter == SeqsUpTo(S, n - 1)
         IN  shorter \cup {Append(q, x) : q \in shorter, x \in S}

\* largest number of rows after the header of <stem 1>.csv
MaxRows == 2
\* number of times the updater is run
MaxRuns == 2

NoBBox == box = <<>> /\ converted = [x |-> 0, y |-> 0, width |-> 0, height |-> 0]
NoFlat == train_csv = <<>> /\ test_csv = <<>> /\ src_dirs = [TRAIN |-> {}, TEST |-> {}]
NoLayout == images_dir = {} /\ labelmap = <<>> /\ csv_files = <<>> /\ sets_files = NoSets
NoUpd == rewritten = {} /\ runs = 0
NoResolve == label = <<>> /\ resolved = [updater |-> {}, exporter |-> {}]
NoExport == splits = <<>> /\ out_files = <<>> /\ raised = ""

vars == <<pc, bboxVars, flatVars, layoutVars, stdout, updVars, resolveVars, expVars>>

----------------------------------------------------------------------------
(* Specification of convert_bbox_format *)

InitBBox ==
    /\ pc = "bbox"
    /\ box \in (Coords \X Coords \X Coords \X Coords)
                  \cup {<<ToStr(10), ToStr(20), ToStr(50), ToStr(80)>>}
    /\ converted = [x |-> 0, y |-> 0, width |-> 0, height |-> 0]
    /\ NoFlat /\ NoLayout /\ NoUpd /\ NoResolve /\ NoExport /\ stdout = <<>>

ConvertBBox ==
    /\ pc = "bbox"
    /\ converted' = convert_bbox_format(box[1], box[2], box[3], box[4])
    /\ pc' = "bbox_done"
    /\ UNCHANGED <<box, flatVars, layoutVars, stdout, updVars, resolveVars, expVars>>

NextBBox == ConvertBBox
SpecBBox == InitBBox /\ [][NextBBox]_vars

----------------------------------------------------------------------------
(* The reorganizer: main of reorganize_dataset.py *)

\* (each intermediate result is bound by \E over a one-element set, so that
\* it is computed once)
Reorganize ==
    /\ pc = "reorganize"
    /\ \E images \in {copy_images(src_dirs.TEST, copy_images(src_dirs.TRAIN, images_dir))} :
       \E tr \in {create_per_image_csvs(train_csv, images, csv_files, <<>>)} :
       \E te \in {create_per_image_csvs(test_csv, images, tr.files, tr.out)} :
           /\ labelmap' = create_labelmap(get_all_classes(<<train_csv, test_csv>>))
           /\ images_dir' = images
           /\ csv_files' = te.files
           /\ sets_files' = create_sets_files(train_csv, test_csv, images)
           /\ stdout' = te.out \o <<"Dataset reorganization complete!">>
    /\ pc' = "reorganized"
    /\ UNCHANGED <<bboxVars, flatVars, updVars, resolveVars, expVars>>

\* the split files over up to MaxStems images, one of which may be missing
InitSets ==
    /\ pc = "reorganize"
    /\ \E T \in SUBSET (1..MaxStems) : train_csv = RowsFor(T)
    /\ \E U \in {{}, {1, MaxStems}} : test_csv = RowsFor(U)
    /\ \E missing \in {0, 1, MaxStems} :
          src_dirs = [TRAIN |-> {ImageName(i) : i \in (1..MaxStems) \ {missing}},
                      TEST |-> {}]
    /\ NoLayout /\ NoBBox /\ NoUpd /\ NoResolve /\ NoExport /\ stdout = <<>>

NextSets == Reorganize
SpecSets == InitSets /\ [][NextSets]_vars

\* rows of the flat CSVs
FlatRowPool ==
    { FlatRow(CsvName(1), s_Apple_leaf, ToStr(1), ToStr(2), ToStr(3), ToStr(4)),
      FlatRow(StemName(1) \o PNG, s_apple_Leaf, ToStr(2), ToStr(2), ToStr(4), ToStr(3)),
      FlatRow(CsvName(2), s_Tomato_pad, ToStr(0), ToStr(0), ToStr(5), ToStr(5)),
      FlatRow(CsvName(2), ToStr(3), ToStr(1), ToStr(1), ToStr(2), ToStr(2)),
      FlatRow(CsvName(3), s_rust, ToStr(4), ToStr(3), ToStr(2), ToStr(1)),
      FlatRow(<<>>, s_Bell_pepper_leaf_ds, ToStr(1), ToStr(1), ToStr(2), ToStr(2)) }

\* largest number of rows of train_labels.csv
MaxFlatRows == 2

InitReorg ==
    /\ pc = "reorganize"
    /\ train_csv \in SeqsUpTo(FlatRowPool, MaxFlatRows)
    /\ test_csv \in SeqsUpTo(FlatRowPool, 1)
    /\ src_dirs \in {[TRAIN |-> {ImageName(1), ImageName(2)}, TEST |-> {ImageName(3)}],
                     [TRAIN |-> {ImageName(1)}, TEST |-> {ImageName(2)}],
                     [TRAIN |-> {StemName(1) \o PNG, ImageName(2)}, TEST |-> {}]}
    /\ NoLayout /\ NoBBox /\ NoUpd /\ NoResolve /\ NoExport /\ stdout = <<>>

NextReorg == Reorganize
SpecReorg == InitReorg /\ [][NextReorg]_vars

----------------------------------------------------------------------------
(* The two label resolvers, on a labelmap the reorganizer wrote *)

InitResolve ==
    /\ pc = "resolve"
    /\ \E sc \in ClassScenarios :
          /\ train_csv = ClassRows(sc[1])
          /\ test_csv = ClassRows(sc[2])
          /\ labelmap = create_labelmap(get_all_classes(<<ClassRows(sc[1]), ClassRows(sc[2])>>))
    /\ src_dirs = [TRAIN |-> {}, TEST |-> {}]
    /\ label \in LabelPool
    /\ resolved = [updater |-> {}, exporter |-> {}]
    /\ images_dir = {} /\ csv_files = <<>> /\ sets_files = NoSets
    /\ NoBBox /\ NoUpd /\ NoExport /\ stdout = <<>>

ResolveLabel ==
    /\ pc = "resolve"
    /\ resolved' = [updater |-> find_label_id(build_class_to_id(labelmap, train_csv, test_csv),
                                               label),
                    exporter |-> category_id_of(load_labelmap(labelmap), label)]
    /\ pc' = "resolved"
    /\ UNCHANGED <<bboxVars, flatVars, layoutVars, stdout, updVars, label, expVars>>

NextResolve == ResolveLabel
SpecResolve == InitResolve /\ [][NextResolve]_vars

----------------------------------------------------------------------------
(* The label updater, run up to MaxRuns times on a csv/ directory *)

InitUpdate ==
    /\ pc = "update"
    /\ \E sc \in ClassScenarios :
          /\ train_csv = ClassRows(sc[1])
          /\ test_csv = ClassRows(sc[2])
          /\ labelmap = create_labelmap(get_all_classes(<<ClassRows(sc[1]), ClassRows(sc[2])>>))
    /\ src_dirs = [TRAIN |-> {}, TEST |-> {}]
    /\ \E body1 \in SeqsUpTo(UpdaterRowPool, MaxRows),
          body2 \in {<<>>, <<FullRow(s_unknown)>>, <<FullRow(s_rust), FullRow(ToStr(2))>>} :
          csv_files = PutFile(PutFile(<<>>, StemName(1), <<PerImageHeader>> \o body1),
                              StemName(2), <<PerImageHeader>> \o body2)
    /\ images_dir = {} /\ sets_files = NoSets
    /\ NoBBox /\ NoUpd /\ NoResolve /\ NoExport /\ stdout = <<>>

UpdateLabels ==
    /\ pc = "update"
    /\ runs < MaxRuns
    /\ \E r \in {update_csv_labels(csv_files, labelmap, train_csv, test_csv)} :
           /\ csv_files' = r.files
           /\ rewritten' = r.rewritten
           /\ stdout' = r.out
    /\ runs' = runs + 1
    /\ UNCHANGED <<pc, bboxVars, flatVars, images_dir, labelmap, sets_files, resolveVars,
                   expVars>>

NextUpdate == UpdateLabels
SpecUpdate == InitUpdate /\ [][NextUpdate]_vars

----------------------------------------------------------------------------
(* The COCO exporter: main of convert_to_coco.py *)

\* rows of a per-image CSV the exporter reads: well-formed rows with a class
\* name and with a numeric label, a row with a non-numeric coordinate, rows
\* with fewer values than header columns, a label that is no class, an
\* empty line, numeric labels that are no label_id of a category
ExportRowPool ==
    { FullRow(s_rust),
      FullRow(ToStr(1)),
      FullRow(ToStr(0)),
      FullRow(ToStr(7)),
      <<ToStr(0), s_abc, FloatStr(5), FloatStr(10), FloatStr(10), s_rust>>,
      <<ToStr(0), FloatStr(5), FloatStr(5)>>,
      <<ToStr(0), FloatStr(5), FloatStr(5), FloatStr(10), FloatStr(10)>>,
      FullRow(s_unknown),
      <<>> }

\* largest number of rows after the header of <stem 1>.csv
MaxExportRows == 2

ExportImages == {ImageName(1), ImageName(2), ImageName(10)}

InitExport ==
    /\ pc = "export"
    /\ train_csv = ClassRows(<<s_rust, s_Tomato>>) /\ test_csv = <<>>
    /\ src_dirs = [TRAIN |-> {}, TEST |-> {}]
    /\ labelmap = create_labelmap(get_all_classes(<<ClassRows(<<s_rust, s_Tomato>>), <<>>>>))
    /\ images_dir \in {ExportImages, {}, ExportImages \ {ImageName(1)},
                       ExportImages \ {ImageName(10)}}
    /\ \E tr \in {<<>>, <<StemName(1), StemName(2), StemName(10)>>,
                  <<StemName(2), <<>>, <<32>> \o StemName(1)>>} :
          sets_files = [NoSets EXCEPT !.train = tr, !.test = <<StemName(2)>>]
    /\ \E body1 \in SeqsUpTo(ExportRowPool, MaxExportRows),
          files10 \in {<<>>, PutFile(<<>>, StemName(10),
                                     <<PerImageHeader, FullRow(s_Tomato)>>)} :
          csv_files = PutFile(PutFile(files10, StemName(1), <<PerImageHeader>> \o body1),
                              StemName(2),
                              <<PerImageHeader, FullRow(s_Tomato), FullRow(s_rust)>>)
    /\ splits \in {<<"train", "val", "test">>, <<"test", "train">>}
    /\ out_files = <<>> /\ raised = ""
    /\ NoBBox /\ NoUpd /\ NoResolve /\ stdout = <<>>

\* (run on a layout given as it is, or on the one the reorganizer left)
Export ==
    /\ pc \in {"export", "reorganized"}
    /\ \E r \in {convert(splits, labelmap, sets_files, images_dir, csv_files)} :
           /\ out_files' = r.files
           /\ stdout' = r.out
           /\ raised' = r.exc
           /\ pc' = IF r.exc = "" THEN "exported" ELSE "export_crashed"
    /\ UNCHANGED <<bboxVars, flatVars, layoutVars, updVars, resolveVars, splits>>

NextExport == Export
SpecExport == InitExport /\ [][NextExport]_vars

----------------------------------------------------------------------------
(* The reorganizer followed by the exporter *)

\* number of image stems "1".."MaxPipelineStems" train_labels.csv may name
MaxPipelineStems == 6

\* train_labels.csv names at least one image; every image of TRAIN/ and
\* TEST/ is named by a row of its flat CSV
InitPipeline ==
    /\ pc = "reorganize"
    /\ \E T \in (SUBSET (1..MaxPipelineStems)) \ {{}} :
          /\ train_csv = RowsFor(T)
          /\ \E U \in {{}, {MaxPipelineStems + 1}} :
                /\ test_csv = RowsFor(U)
                /\ src_dirs = [TRAIN |-> {ImageName(i) : i \in T},
                               TEST |-> {ImageName(i) : i \in U}]
    /\ splits \in {<<"train", "val", "test">>, <<"val", "train">>}
    /\ out_files = <<>> /\ raised = ""
    /\ NoLayout /\ NoBBox /\ NoUpd /\ NoResolve /\ stdout = <<>>

NextPipeline == Reorganize \/ Export
SpecPipeline == InitPipeline /\ [][NextPipeline]_vars

----------------------------------------------------------------------------
(* Claims *)

\* C1: after create_sets_files, the stems of val.txt and of the final
\* train.txt are disjoint, their union is the set of train_val.txt, and that
\* set is the original set of train stems (the stems the train CSV names that
\* have an image).
C1_ValTrainPartition ==
    pc = "reorganized" =>
        /\ Range(sets_files.val) \cap Range(sets_files.train) = {}
        /\ Range(sets_files.val) \cup Range(sets_files.train)
              = Range(sets_files.train_val)
        /\ Range(sets_files.train_val)
              = {PathStem(train_csv[i].filename) : i \in
                    {i \in 1..Len(train_csv) :
                        \E e \in Range(Extensions) :
                            (PathStem(train_csv[i].filename) \o e) \in images_dir}}
        /\ Len(sets_files.val) = Cardinality(Range(sets_files.val))
        /\ Len(sets_files.train) = Cardinality(Range(sets_files.train))

\* a run with at least ten train stems: val.txt holds two stems
C1_Witness ==
    /\ pc = "reorganized"
    /\ Len(sets_files.val) >= 1
    /\ Len(sets_files.train) >= 4

C2_BellPepperSpellings ==
    (/\ pc = "resolved"
     /\ Len(labelmap) = 2
     /\ labelmap[2].object_name = s_bell_pepper_leaf
     /\ label \in {s_bell_pepper_leaf, s_Bell_Pepper_Leaf_sp, s_Bell_Pepper_Leaf})
    => /\ resolved.updater = {labelmap[2].label_id}
       /\ resolved.exporter = {labelmap[2].label_id}

\* "Bell Pepper Leaf" has been resolved against the one-entry labelmap
C2_Witness ==
    /\ pc = "resolved"
    /\ Len(labelmap) = 2
    /\ labelmap[2].object_name = s_bell_pepper_leaf
    /\ label = s_Bell_Pepper_Leaf_sp
    /\ resolved.exporter = {1}

\* every row with a label column holds a numeric label
AllNumeric(files) ==
    \A s \in DOMAIN files : \A i \in 2..Len(files[s]) :
        Len(files[s][i]) >= 6 => IsDigit(Strip(files[s][i][6]))

\* C3: an updater run on CSVs whose label column holds only numeric label
\* IDs alters no label and rewrites no file.
C3_NumericUnchanged ==
    [][(AllNumeric(csv_files) /\ runs' = runs + 1)
          => (csv_files' = csv_files /\ rewritten' = {})]_vars

\* a second run, on the output of a first run that wrote the label "2" (no
\* input row holds it), has rewritten nothing
C3_Witness ==
    /\ runs = 2
    /\ AllNumeric(csv_files)
    /\ rewritten = {}
    /\ \E i \in 2..Len(csv_files[StemName(1)]) :
          /\ Len(csv_files[StemName(1)][i]) >= 6
          /\ csv_files[StemName(1)][i][6] = ToStr(2)

\* C4: in each exported document the annotation ids are 1..M in emission
\* order, across all the images of the split (so no two annotations share one).
C4_AnnotationIds ==
    \A sp \in DOMAIN out_files :
        \A k \in 1..Len(out_files[sp].annotations) :
            out_files[sp].annotations[k].id = k

\* a document whose second image has annotations, numbered on from the first's
C4_Witness ==
    /\ pc = "exported"
    /\ \E sp \in DOMAIN out_files :
          \E k \in 1..Len(out_files[sp].annotations) :
              /\ out_files[sp].annotations[k].image_id = 2
              /\ out_files[sp].annotations[k].id >= 3

\* C5: in each exported document the image ids are 1..K in ascending order of
\* stem, a stem without an image file consumes no id, and every annotation's
\* image_id is the id of an emitted image.
C5_ImageIds ==
    \A sp \in DOMAIN out_files :
        LET doc == out_files[sp]
        IN  /\ \A k \in 1..Len(doc.images) : doc.images[k].id = k
            /\ \A k \in 1..Len(doc.images) : \A l \in 1..Len(doc.images) :
                  k < l => StrLess(PathStem(doc.images[k].file_name),
                                   PathStem(doc.images[l].file_name))
            /\ \A k \in 1..Len(doc.annotations) :
                  doc.annotations[k].image_id \in 1..Len(doc.images)

\* train.txt lists stem 1, which has no image: stem 10 gets id 1 and stem 2,
\* which has annotations, gets id 2
C5_Witness ==
    /\ pc = "exported"
    /\ StemName(1) \in Range(sets_files.train)
    /\ "train" \in DOMAIN out_files
    /\ Len(out_files["train"].images) = 2
    /\ PathStem(out_files["train"].images[1].file_name) = StemName(10)
    /\ \E k \in 1..Len(out_files["train"].annotations) :
          out_files["train"].annotations[k].image_id = 2

\* C6: a malformed row of a per-image CSV (a non-numeric coordinate, fewer
\* values than header columns) is dropped as one row; the export does not
\* abort and writes the document of every split.
C6_MalformedRowDropped ==
    pc \in {"exported", "export_crashed"} =>
        /\ pc = "exported"
        /\ raised = ""
        /\ DOMAIN out_files = Range(splits)

\* C7: a split file that lists only stems without an image file gives a
\* document with no images and no annotations, and a warning is printed.
C7_NoImagesWarned ==
    \A sp \in DOMAIN out_files :
        (/\ Range(read_split_list(sets_files[sp])) # {}
         /\ \A s \in Range(read_split_list(sets_files[sp])) :
               \A e \in Range(Extensions) : (s \o e) \notin images_dir)
        => /\ out_files[sp].images = <<>>
           /\ out_files[sp].annotations = <<>>
           /\ \E k \in 1..Len(stdout) : stdout[k] # "Generated"

\* C8: an updater run keeps the files, each file's header, row count and row
\* order; a row changes only in column 6 and only to a label_id of the
\* labelmap; a row of fewer than 6 columns or with a label that is not found
\* stays as it was; a file is written only if one of its rows was resolved.
C8_UpdaterFrame ==
    [][runs' = runs + 1 =>
        /\ DOMAIN csv_files' = DOMAIN csv_files
        /\ \A s \in DOMAIN csv_files :
              LET old == csv_files[s]
                  new == csv_files'[s]
                  d == build_class_to_id(labelmap, train_csv, test_csv)
              IN  /\ Len(new) = Len(old)
                  /\ new[1] = old[1]
                  /\ \A i \in 2..Len(old) :
                        /\ new[i] # old[i] =>
                              /\ Len(old[i]) >= 6
                              /\ Len(new[i]) = Len(old[i])
                              /\ \A j \in (1..Len(old[i])) \ {6} : new[i][j] = old[i][j]
                              /\ \E e \in Range(labelmap) :
                                    e.object_id > 0 /\ new[i][6] = ToStr(e.label_id)
                        /\ (Len(old[i]) < 6 \/ find_label_id(d, old[i][6]) = {})
                              => new[i] = old[i]
                  /\ s \in rewritten' => new # old]_vars

\* after a run, <stem 1>.csv was rewritten and still holds a short row and a
\* row whose label was not found, and <stem 2>.csv, where no row resolved,
\* was not written
C8_Witness ==
    /\ runs = 1
    /\ rewritten = {StemName(1)}
    /\ Len(csv_files[StemName(2)]) = 2
    /\ \E i \in 2..Len(csv_files[StemName(1)]) : Len(csv_files[StemName(1)][i]) = 5
    /\ \E i \in 2..Len(csv_files[StemName(1)]) :
          /\ Len(csv_files[StemName(1)][i]) >= 6
          /\ IsDigit(csv_files[StemName(1)][i][6])

\* the class names create_labelmap gets an entry for
ValidClassNames ==
    {c \in {Strip(r.class) : r \in Range(train_csv) \cup Range(test_csv)} :
        c # <<>> /\ \E i \in 1..Len(c) : c[i] \notin 48..57}

\* C9: the labelmap is the background entry (ids 0) followed by one entry per
\* distinct non-empty, non-numeric class name of the two CSVs, with
\* object_id = label_id = the 1-based position of the name in sorted order.
C9_Labelmap ==
    pc = "reorganized" =>
        /\ Len(labelmap) = 1 + Cardinality(ValidClassNames)
        /\ labelmap[1].object_id = 0
        /\ labelmap[1].label_id = 0
        /\ labelmap[1].object_name = s_background
        /\ \A c \in ValidClassNames :
              LET pos == 1 + Cardinality({d \in ValidClassNames : StrLess(d, c)})
              IN  /\ labelmap[pos + 1].object_id = pos
                  /\ labelmap[pos + 1].label_id = pos
                  /\ labelmap[pos + 1].object_name = Replace(Lower(c), SPACE, USCORE)

\* two classes got the ids 1 and 2 while a row with a numeric class got none
C9_Witness ==
    /\ pc = "reorganized"
    /\ Len(labelmap) = 3
    /\ labelmap[3].label_id = 2
    /\ \E r \in Range(train_csv) \cup Range(test_csv) : IsDigit(Strip(r.class))

----------------------------------------------------------------------------
\* C11: every annotation of an exported document carries a category_id that
\* is the id of an entry of that document's categories list, whatever the
\* label of its CSV row, a numeric label included.
C11_CategoryIdsListed ==
    \A sp \in DOMAIN out_files :
        \A k \in 1..Len(out_files[sp].annotations) :
            \E c \in 1..Len(out_files[sp].categories) :
                out_files[sp].categories[c].id = out_files[sp].annotations[k].category_id

----------------------------------------------------------------------------
\* the valid rows of a flat CSV whose image resolves in images/ and whose
\* filename has the stem
RowsOfStem(csv_file, stem) ==
    {i \in ValidRows(csv_file) :
        /\ PathStem(Strip(csv_file[i].filename)) = stem
        /\ \/ FindImage(images_dir, stem) # <<>>
           \/ Strip(csv_file[i].filename) \in images_dir}

\* the stems of the valid rows of both flat CSVs
SourceStems ==
    {PathStem(Strip(train_csv[i].filename)) : i \in ValidRows(train_csv)}
        \cup {PathStem(Strip(test_csv[i].filename)) : i \in ValidRows(test_csv)}

\* C12: after the reorganizer has processed train_labels.csv and
\* test_labels.csv, the per-image CSV of a stem has one row for every valid
\* row of both flat CSVs with that stem whose image resolves; none is lost
\* when the stem occurs in both CSVs or under two extensions.
C12_NoRowLost ==
    pc = "reorganized" =>
        \A stem \in SourceStems :
            LET n == Cardinality(RowsOfStem(train_csv, stem))
                        + Cardinality(RowsOfStem(test_csv, stem))
            IN  n > 0 => /\ stem \in DOMAIN csv_files
                         /\ Len(csv_files[stem]) = 1 + n

----------------------------------------------------------------------------
\* the file names of the images of an exported document
ImageFiles(doc) == {doc.images[k].file_name : k \in 1..Len(doc.images)}

\* C13: on a layout made by the reorganizer, the documents exported for the
\* train split and for the val split have no image in common, whatever the
\* number of train stems (fewer than 5, where val.txt is empty, included).
C13_TrainValDisjoint ==
    (pc = "exported" /\ {"train", "val"} \subseteq DOMAIN out_files) =>
        ImageFiles(out_files["train"]) \cap ImageFiles(out_files["val"]) = {}

====
